---- MODULE Spec2Model ----
(***************************************************************************)
(* A model of the VideoMixer batch pipeline.                               *)
(*                                                                         *)
(* The repository holds three variants of the server:                      *)
(*   "index"   src/index.js lines 1-192   POST /upload, processVideos with *)
(*             try / catch / finally                                       *)
(*   "index2"  src/index.js lines 194-385 POST /upload, processVideos      *)
(*             whose loop is outside the try and which has no finally      *)
(*   "combine" src/unnamed/part_000       POST /combine, Promise.all       *)
(* One of them is the running server; Init picks it.                       *)
(*                                                                         *)
(* An action is one turn of the Node event loop: a request handler, or the *)
(* continuation that runs when an awaited operation settles, up to the     *)
(* next await.                                                             *)
(*                                                                         *)
(* Environment assumptions: uuidv4 returns an identifier not used before;  *)
(* the synchronous status write of saveStatus succeeds.                    *)
(*                                                                         *)
(* Specifications:                                                         *)
(*   Spec         the server, its process never restarted                  *)
(*   RestartSpec  the /upload server with kills and restarts of its process*)
(*   FairSpec     the /upload server under weak fairness of the            *)
(*                continuations of its awaits                              *)
(***************************************************************************)
EXTENDS Integers, Sequences, FiniteSets, TLC

VARIABLES
    variant,       \* which server variant is running
    crashed,       \* the server process died of an uncaught exception
    clock,         \* the last wall-clock second read by new Date()
    pc,            \* per request: where its handler / processVideos stands
    hooks,         \* per request: req.files.hooks, as original file names
    bodies,        \* per request: req.files.bodies, as original file names
    taskId,        \* per request: the uuid assigned by /upload
    stamp,         \* per request: the timestamp of /combine
    storedAt,      \* per request: Date.now() when multer named its files
    jobs,          \* per request: each (hook, body) job's promise state
    calls,         \* per request: how often combineVideos was invoked per job
    successCount,  \* per request: the local successCount
    cleanups,      \* per request: how often the removal of the uploads started
    failed,        \* per request: the step whose failure ended the task
    resp,          \* per request: the HTTP response sent
    statusFile,    \* per task id: the content of <resultsDir>/<id>/status.json
    writes,        \* per task id: number of saveStatus calls
    dirs,          \* result directories that exist, with their file names
    zips           \* archives that exist, with their entries

vars == <<variant, crashed, clock, pc, hooks, bodies, taskId, stamp, storedAt, jobs,
          calls, successCount, cleanups, failed, resp, statusFile, writes, dirs,
          zips>>

---------------------------------------------------------------------------
(* Bounds of the model *)

MaxRequests == 2
MaxHooks == 2
MaxBodies == 2
MaxSecond == 2
MaxSameBaseBodies == 1
MaxPartial == 1
MaxLaterJobs == 2

Requests == 1..MaxRequests
Seconds == 1..MaxSecond
\* The milliseconds in which uploads are stored: at most one per request.
Millis == 1..MaxRequests

Variants == {"index", "index2", "combine"}
IndexVariants == {"index", "index2"}

\* Values uuidv4 may return: one per request, named by the order in which
\* they are returned.
TaskIds == { ToString(k) : k \in 1..MaxRequests }
NoId == "none"

\* Original file names of uploads, as sequences of characters. The hooks of
\* a request are the first files of a roster: one roster has distinct base
\* names, the other has one base name under different extensions.
DistinctHooks == [k \in 1..MaxHooks |-> <<"h", ToString(k), ".", "mp4">>]
SameBaseHooks == [k \in 1..MaxHooks |-> <<"h", ".", ToString(k)>>]
DistinctBodies == [k \in 1..MaxBodies |-> <<"b", ToString(k), ".", "mp4">>]

HookLists == { SubSeq(R, 1, k) : R \in {DistinctHooks, SameBaseHooks}, k \in 0..MaxHooks }
BodyLists == { SubSeq(DistinctBodies, 1, k) : k \in 0..MaxBodies }

\* The submissions: every list of hooks with every list of bodies, the hooks
\* of one base name with at most MaxSameBaseBodies bodies.
Submissions ==
    { sub \in HookLists \X BodyLists :
        (Len(sub[1]) > 0 /\ sub[1] = SubSeq(SameBaseHooks, 1, Len(sub[1])))
            => Len(sub[2]) <= MaxSameBaseBodies }

\* The submissions of request r: the first request is any submission, a
\* later one has at most MaxLaterJobs jobs.
SubmissionsOf(r) ==
    { sub \in Submissions : r > 1 => Len(sub[1]) * Len(sub[2]) <= MaxLaterJobs }

\* How the external ffmpeg process of one job ends.
ExitKinds == {"exit0", "exitErr", "spawnErr", "hang"}

\* How the archive stream pipeline of zipDirectory ends.
ZipEnds == {"close", "archiveError", "streamError"}

---------------------------------------------------------------------------
(* Pure helpers *)

\* The index of the last "." of a name, 0 when there is none.
LastDot(s) ==
    LET ds == { i \in 1..Len(s) : s[i] = "." }
    IN IF ds = {} THEN 0 ELSE CHOOSE i \in ds : \A k \in ds : k <= i

\* path.parse(originalname).name: the base name without its last extension;
\* a leading dot starts no extension.
PathParseName(s) ==
    IF LastDot(s) <= 1 THEN s ELSE SubSeq(s, 1, LastDot(s) - 1)

\* `comb_${name(hook)}_${name(body)}.mp4`
OutputName(h, b) ==
    <<"comb_">> \o PathParseName(h) \o <<"_">> \o PathParseName(b) \o <<".mp4">>

ReportName == <<"report.txt">>
StatusName == <<"status.json">>

\* hooks.length * bodies.length
Total(hs, bs) == Len(hs) * Len(bs)

\* Jobs are numbered in the order of the nested for loops.
HookOf(hs, bs, j) == hs[((j - 1) \div Len(bs)) + 1]
BodyOf(hs, bs, j) == bs[((j - 1) % Len(bs)) + 1]
JobName(hs, bs, j) == OutputName(HookOf(hs, bs, j), BodyOf(hs, bs, j))

\* A validation that rejects only a request with no file at all.
InvalidBoth(hs, bs) == Len(hs) = 0 /\ Len(bs) = 0

\* The request validation of both handlers.
Invalid(hs, bs) == Len(hs) = 0 \/ Len(bs) = 0

\* runCommand: how the promise of one external process settles. index.js
\* passes exec a timeout, so a hanging process is killed and the callback
\* gets an error; part_000 passes none, and the promise stays pending.
RunCommand(v, kind) ==
    CASE kind = "exit0" -> "resolved"
      [] kind \in {"exitErr", "spawnErr"} -> "rejected"
      [] kind = "hang" -> IF v \in IndexVariants THEN "rejected" ELSE "pending"

Count(seq, x) == Cardinality({ i \in 1..Len(seq) : seq[i] = x })

\* The jobs whose combineVideos promise is pending.
Running(js) == { i \in 1..Len(js) : js[i] = "running" }

\* A batch that waits for no job.
NoneAwaited(js) == {}

\* The jobs whose combineVideos promise is not settled: their process runs,
\* or it hangs and nothing will ever call the callback of exec.
Unsettled(js) == { i \in 1..Len(js) : js[i] \in {"running", "hung"} }

\* The ways a started runCommand promise can settle.
Settlements(v) == { RunCommand(v, kind) : kind \in ExitKinds } \ {"pending"}

\* Whether a settled combineVideos invocation leaves a file at outputPath.
\* ffmpeg ... -y "${outputPath}" writes the destination itself while it
\* encodes: a run that resolved left the file; a run that failed, or that the
\* timeout killed, left what it had written, or nothing when it failed before
\* it opened the output. No code removes the file of a rejected job.
\* At most MaxPartial failed jobs of a task leave a file.
Leaves(res, partial) ==
    IF res = "resolved" THEN {TRUE}
    ELSE IF Cardinality(partial) < MaxPartial THEN BOOLEAN ELSE {FALSE}

\* The rejected jobs of a task at whose destination a file exists.
PartialFiles(js, hs, bs, files) ==
    { j \in 1..Len(js) : js[j] = "rejected" /\ JobName(hs, bs, j) \in files }

\* fs.writeFileSync(report.txt) runs, and may throw, only after the last
\* job settled.
ReportOutcomes(js) == IF Cardinality(Unsettled(js)) = 1 THEN BOOLEAN ELSE {TRUE}

---------------------------------------------------------------------------
(* The task store *)

NoFile == [status |-> "absent"]
Processing == [status |-> "processing"]
ErrorRecord == [status |-> "error", message |-> "err.message"]
\* A status.json that was opened for writing, which truncates it, and whose
\* content was never written: it exists and holds no JSON.
Torn == [status |-> "torn"]
DoneRecord(id, success, total) ==
    [status |-> "done", downloadUrl |-> id, success |-> success, total |-> total]

\* fs.ensureDir / fs.ensureDirSync on a result directory.
EnsureDir(d, k) == IF k \in DOMAIN d THEN d ELSE [x \in DOMAIN d \cup {k} |->
                       IF x = k THEN {} ELSE d[x]]

AddFile(d, k, name) == [d EXCEPT ![k] = @ \cup {name}]

\* saveStatus(taskId, data): its effect on the status files and on the
\* result directories (status.json lives in the task's own directory).
SaveStatusFile(sf, id, data) == [sf EXCEPT ![id] = data]
SaveStatusDirs(d, id) == AddFile(EnsureDir(d, id), id, StatusName)

Used == { taskId[r] : r \in Requests } \ {NoId}

\* uuidv4(): an identifier that was not returned before.
Uuidv4 == { id \in TaskIds \ Used : id = ToString(Cardinality(Used) + 1) }

---------------------------------------------------------------------------
(* The uploads directory *)

\* multer.diskStorage filename: `${Date.now()}_${file.originalname}`, in the
\* one uploads directory.
Filename(now, originalname) == <<ToString(now), "_">> \o originalname

\* Date.now() in the filename callback of request r: a later millisecond
\* than that of the request before, or the same one when the two requests
\* were handled back to back.
DateNow(r) ==
    IF r = 1 THEN {1}
    ELSE IF pc[r - 1] \in {"ensureDir", "rejected"}
         THEN {storedAt[r - 1], storedAt[r - 1] + 1}
         ELSE {storedAt[r - 1] + 1}

\* The paths of the uploaded files of a request, file.path.
UploadPaths(r) ==
    { Filename(storedAt[r], hooks[r][i]) : i \in 1..Len(hooks[r]) }
        \cup { Filename(storedAt[r], bodies[r][i]) : i \in 1..Len(bodies[r]) }

---------------------------------------------------------------------------
Init ==
    /\ variant \in Variants
    /\ crashed = FALSE
    /\ clock = 1
    /\ pc = [r \in Requests |-> "idle"]
    /\ hooks = [r \in Requests |-> <<>>]
    /\ bodies = [r \in Requests |-> <<>>]
    /\ taskId = [r \in Requests |-> NoId]
    /\ stamp = [r \in Requests |-> 0]
    /\ storedAt = [r \in Requests |-> 0]
    /\ jobs = [r \in Requests |-> <<>>]
    /\ calls = [r \in Requests |-> <<>>]
    /\ successCount = [r \in Requests |-> 0]
    /\ cleanups = [r \in Requests |-> 0]
    /\ failed = [r \in Requests |-> "none"]
    /\ resp = [r \in Requests |-> [code |-> 0]]
    /\ statusFile = [id \in TaskIds |-> NoFile]
    /\ writes = [id \in TaskIds |-> 0]
    /\ dirs = [k \in {} |-> {}]
    /\ zips = [k \in {} |-> {}]

\* Requests arrive in the order of their numbers.
Arrives(r) ==
    /\ ~crashed
    /\ pc[r] = "idle"
    /\ IF r = 1 THEN TRUE ELSE pc[r - 1] # "idle"

---------------------------------------------------------------------------
(* Steps shared by the variants *)

\* A count that is incremented outside the try, whatever the job did.
CountAfterAlways(count, res) == count + 1

\* successCount after one combineVideos promise settled.
CountAfter(count, res) == IF res = "resolved" THEN count + 1 ELSE count

\* A loop without the per-job try/catch.
JobNotCaught(v) == FALSE

\* The per-job try/catch (index.js) or .catch (part_000) absorbs a rejection.
JobCaught(v) == TRUE

\* A loop that breaks at the first rejected job.
LoopStepBreak(js, j, res) ==
    [i \in 1..Len(js) |->
        IF i = j THEN res
        ELSE IF i = j + 1 /\ res # "rejected" THEN "running"
        ELSE js[i]]

\* The sequential loop of processVideos: job j settled with res; the loop
\* goes on to the next pair, whatever res is.
LoopStep(js, j, res) ==
    [i \in 1..Len(js) |->
        IF i = j THEN res
        ELSE IF i = j + 1 THEN "running"
        ELSE js[i]]

\* combineVideos(...) is invoked for job j.
Invoke(cs, j) == [cs EXCEPT ![j] = @ + 1]

\* The invocation counts after the loop stepped from jobs js to jobs ks.
InvokeStarted(cs, js, ks) ==
    [i \in 1..Len(cs) |->
        IF js[i] # "running" /\ ks[i] = "running" THEN cs[i] + 1 ELSE cs[i]]

\* The finally block of processVideos exists in the first variant only.
HasFinally(v) == v = "index"

\* [...hooks, ...bodies].forEach((f) => fs.remove(f.path))
CleanupAfter(v, n) == IF HasFinally(v) THEN n + 1 ELSE n

\* A failure of a step inside the try block of processVideos is caught there;
\* fs.ensureDir(taskDir) is awaited before the try.
Caught(v, step) == step \in {"report", "zip"}

\* A catch block that rethrows after saving the error.
EscapesAlways(v, step) == TRUE

\* The rejection of processVideos reaches the .catch of the /upload handler
\* when no catch block of processVideos handled it.
Escapes(v, step) == ~Caught(v, step)

\* The number of saveStatus(taskId, {status: "error"}) calls a failure of
\* `step` leads to.
ErrorSaves(v, step) ==
    (IF Caught(v, step) THEN 1 ELSE 0) + (IF Escapes(v, step) THEN 1 ELSE 0)

\* The archive key of a task: `${taskId}.zip`, `videos_${timestamp}.zip`.
StartZip(z, k) == [x \in DOMAIN z \cup {k} |->
                      IF x = k THEN [entries |-> {}, complete |-> FALSE] ELSE z[x]]
\* A zipDirectory that resolves before the output stream has closed.
ResolveUnclosed(z, k, files) == z

\* stream.on("close", resolve): the archive is written when zipDirectory
\* resolves.
CloseZip(z, k, files) == [z EXCEPT ![k] = [entries |-> files, complete |-> TRUE]]

---------------------------------------------------------------------------
(* src/index.js: POST /upload and processVideos *)

\* processVideos failed at `step`: the status becomes error, through the
\* catch block (then the finally block runs) or through the handler's .catch.
FailTask(r, step) ==
    LET id == taskId[r] IN
    /\ pc' = [pc EXCEPT ![r] = "finished"]
    /\ failed' = [failed EXCEPT ![r] = step]
    /\ statusFile' = IF ErrorSaves(variant, step) > 0
                     THEN SaveStatusFile(statusFile, id, ErrorRecord)
                     ELSE statusFile
    /\ writes' = [writes EXCEPT ![id] = @ + ErrorSaves(variant, step)]
    /\ cleanups' = [cleanups EXCEPT ![r] =
                       IF Caught(variant, step) THEN CleanupAfter(variant, @) ELSE @]

\* The /upload handler: validation, uuidv4, saveStatus(processing), the
\* call of processVideos up to its first await, the 202 response.
UploadHandler(r) ==
    /\ variant \in IndexVariants
    /\ Arrives(r)
    /\ \E hs \in HookLists, bs \in BodyLists, now \in DateNow(r) :
        /\ <<hs, bs>> \in SubmissionsOf(r)
        /\ storedAt' = [storedAt EXCEPT ![r] = now]
        /\ hooks' = [hooks EXCEPT ![r] = hs]
        /\ bodies' = [bodies EXCEPT ![r] = bs]
        /\ IF Invalid(hs, bs)
           THEN /\ resp' = [resp EXCEPT ![r] = [code |-> 400]]
                /\ pc' = [pc EXCEPT ![r] = "rejected"]
                /\ UNCHANGED <<taskId, statusFile, writes, dirs, jobs, calls>>
           ELSE \E id \in Uuidv4 :
                /\ taskId' = [taskId EXCEPT ![r] = id]
                /\ statusFile' = SaveStatusFile(statusFile, id, Processing)
                /\ writes' = [writes EXCEPT ![id] = @ + 1]
                /\ dirs' = SaveStatusDirs(dirs, id)
                /\ jobs' = [jobs EXCEPT ![r] = [j \in 1..Total(hs, bs) |-> "pending"]]
                /\ calls' = [calls EXCEPT ![r] = [j \in 1..Total(hs, bs) |-> 0]]
                /\ pc' = [pc EXCEPT ![r] = "ensureDir"]
                /\ resp' = [resp EXCEPT ![r] = [code |-> 202, taskId |-> id]]
    /\ UNCHANGED <<variant, crashed, clock, stamp, successCount, cleanups, failed,
                   zips>>

\* await fs.ensureDir(taskDir) settles; on success the loop starts job 1.
ProcessVideosEnsureDir(r) ==
    /\ variant \in IndexVariants
    /\ ~crashed
    /\ pc[r] = "ensureDir"
    /\ \E ok \in BOOLEAN :
        IF ok
        THEN /\ dirs' = EnsureDir(dirs, taskId[r])
             /\ jobs' = [jobs EXCEPT ![r] = LoopStep(@, 0, "none")]
             /\ calls' = [calls EXCEPT ![r] = Invoke(@, 1)]
             /\ pc' = [pc EXCEPT ![r] = "jobs"]
             /\ UNCHANGED <<statusFile, writes, cleanups, failed>>
        ELSE /\ FailTask(r, "ensureDir")
             /\ UNCHANGED <<dirs, jobs, calls>>
    /\ UNCHANGED <<variant, crashed, clock, hooks, bodies, taskId, stamp, storedAt,
                   successCount, resp, zips>>

\* await combineVideos(...) of the running job settles: the job is counted,
\* and the loop starts the next job or, after the last one, the report is
\* written and zipDirectory is started.
ProcessVideosJob(r) ==
    /\ variant \in IndexVariants
    /\ ~crashed
    /\ pc[r] = "jobs"
    /\ \E j \in Running(jobs[r]), res \in Settlements(variant),
          reportOk \in ReportOutcomes(jobs[r]) :
        \E left \in Leaves(res, PartialFiles(jobs[r], hooks[r], bodies[r],
                                              dirs[taskId[r]])) :
        LET id == taskId[r]
            js == LoopStep(jobs[r], j, res)
            written == IF left
                       THEN AddFile(dirs, id, JobName(hooks[r], bodies[r], j))
                       ELSE dirs
        IN
        /\ jobs' = [jobs EXCEPT ![r] = js]
        /\ calls' = [calls EXCEPT ![r] = InvokeStarted(@, jobs[r], js)]
        /\ IF res = "rejected" /\ ~JobCaught(variant)
           THEN /\ FailTask(r, "job")
                /\ dirs' = written
                /\ UNCHANGED <<successCount, zips>>
           ELSE
           /\ successCount' = [successCount EXCEPT ![r] = CountAfter(@, res)]
           /\ IF Unsettled(js) # {}
              THEN /\ reportOk
                   /\ dirs' = written
                   /\ UNCHANGED <<pc, statusFile, writes, cleanups, failed, zips>>
              ELSE IF reportOk
              THEN /\ dirs' = AddFile(written, id, ReportName)
                   /\ zips' = StartZip(zips, id)
                   /\ pc' = [pc EXCEPT ![r] = "zip"]
                   /\ UNCHANGED <<statusFile, writes, cleanups, failed>>
              ELSE /\ FailTask(r, "report")
                   /\ dirs' = written
                   /\ UNCHANGED zips
    /\ UNCHANGED <<variant, crashed, clock, hooks, bodies, taskId, stamp, storedAt,
                   resp>>

\* await zipDirectory(taskDir, zipPath) settles. The stream's close resolves
\* it; the archiver's error rejects it; an error of the output stream has no
\* listener, so it is thrown as an uncaught exception and ends the process.
ProcessVideosZip(r) ==
    /\ variant \in IndexVariants
    /\ ~crashed
    /\ pc[r] = "zip"
    /\ \E end \in ZipEnds :
        LET id == taskId[r] IN
        CASE end = "close" ->
               /\ zips' = CloseZip(zips, id, dirs[id])
               /\ statusFile' = SaveStatusFile(statusFile, id,
                      DoneRecord(id, successCount[r], Total(hooks[r], bodies[r])))
               /\ writes' = [writes EXCEPT ![id] = @ + 1]
               /\ cleanups' = [cleanups EXCEPT ![r] = CleanupAfter(variant, @)]
               /\ pc' = [pc EXCEPT ![r] = "finished"]
               /\ UNCHANGED <<crashed, failed>>
          [] end = "archiveError" ->
               /\ FailTask(r, "zip")
               /\ UNCHANGED <<zips, crashed>>
          [] end = "streamError" ->
               /\ crashed' = TRUE
               /\ failed' = [failed EXCEPT ![r] = "stream"]
               /\ UNCHANGED <<zips, statusFile, writes, cleanups, pc>>
    /\ UNCHANGED <<variant, clock, hooks, bodies, taskId, stamp, storedAt, jobs, calls,
                   successCount, resp, dirs>>

---------------------------------------------------------------------------
(* src/unnamed/part_000: POST /combine *)

\* The timestamp of a run, cut to the second, names the run folder and the
\* archive: thisRunFolder = <outputFolder>/<timestamp>, videos_<timestamp>.zip.
RunFolder(s) == ToString(s)

\* The catch block of the handler: res.status(500).
FailCombine(r, step) ==
    /\ pc' = [pc EXCEPT ![r] = "finished"]
    /\ failed' = [failed EXCEPT ![r] = step]
    /\ resp' = [resp EXCEPT ![r] = [code |-> 500]]

\* The /combine handler up to its first await: validation, the timestamp,
\* the call of fs.ensureDir(thisRunFolder).
CombineHandler(r) ==
    /\ variant = "combine"
    /\ Arrives(r)
    /\ \E hs \in HookLists, bs \in BodyLists, now \in DateNow(r) :
        /\ <<hs, bs>> \in SubmissionsOf(r)
        /\ storedAt' = [storedAt EXCEPT ![r] = now]
        /\ hooks' = [hooks EXCEPT ![r] = hs]
        /\ bodies' = [bodies EXCEPT ![r] = bs]
        /\ IF Invalid(hs, bs)
           THEN /\ resp' = [resp EXCEPT ![r] = [code |-> 400]]
                /\ pc' = [pc EXCEPT ![r] = "rejected"]
                /\ UNCHANGED <<clock, stamp, jobs, calls>>
           ELSE \E s \in Seconds :
                /\ s >= clock
                /\ clock' = s
                /\ stamp' = [stamp EXCEPT ![r] = s]
                /\ jobs' = [jobs EXCEPT ![r] = [j \in 1..Total(hs, bs) |-> "pending"]]
                /\ calls' = [calls EXCEPT ![r] = [j \in 1..Total(hs, bs) |-> 0]]
                /\ pc' = [pc EXCEPT ![r] = "ensureDir"]
                /\ UNCHANGED resp
    /\ UNCHANGED <<variant, crashed, taskId, successCount, cleanups, failed,
                   statusFile, writes, dirs, zips>>

\* The nested loops of the handler call combineVideos for every pair without
\* awaiting it: every job is started.
FanOut(js) == [i \in 1..Len(js) |-> "running"]

\* await fs.ensureDir(thisRunFolder) settles; on success the loops start
\* every job and the handler awaits Promise.all(jobs).
CombineEnsureDir(r) ==
    /\ variant = "combine"
    /\ ~crashed
    /\ pc[r] = "ensureDir"
    /\ \E ok \in BOOLEAN :
        IF ok
        THEN /\ dirs' = EnsureDir(dirs, RunFolder(stamp[r]))
             /\ jobs' = [jobs EXCEPT ![r] = FanOut(@)]
             /\ calls' = [calls EXCEPT ![r] = InvokeStarted(@, jobs[r], FanOut(jobs[r]))]
             /\ pc' = [pc EXCEPT ![r] = "jobs"]
             /\ UNCHANGED <<resp, failed>>
        ELSE /\ FailCombine(r, "ensureDir")
             /\ UNCHANGED <<dirs, jobs, calls>>
    /\ UNCHANGED <<variant, crashed, clock, hooks, bodies, taskId, stamp, storedAt,
                   successCount, cleanups, statusFile, writes, zips>>

\* The promise of job j settles: .then counts it, .catch logs it. When it
\* was the last one, Promise.all resolves: the report is written and
\* zipDirectory is started.
CombineJob(r) ==
    /\ variant = "combine"
    /\ ~crashed
    /\ pc[r] = "jobs"
    /\ \E j \in Running(jobs[r]), res \in Settlements(variant),
          reportOk \in ReportOutcomes(jobs[r]) :
        \E left \in Leaves(res, PartialFiles(jobs[r], hooks[r], bodies[r],
                                              dirs[RunFolder(stamp[r])])) :
        LET k == RunFolder(stamp[r])
            js == [jobs[r] EXCEPT ![j] = res]
            written == IF left
                       THEN AddFile(dirs, k, JobName(hooks[r], bodies[r], j))
                       ELSE dirs
        IN
        /\ jobs' = [jobs EXCEPT ![r] = js]
        /\ IF res = "rejected" /\ ~JobCaught(variant)
           THEN /\ FailCombine(r, "job")
                /\ dirs' = written
                /\ UNCHANGED <<successCount, zips>>
           ELSE
           /\ successCount' = [successCount EXCEPT ![r] = CountAfter(@, res)]
           /\ IF Unsettled(js) # {}
              THEN /\ reportOk
                   /\ dirs' = written
                   /\ UNCHANGED <<pc, resp, failed, zips>>
              ELSE IF reportOk
              THEN /\ dirs' = AddFile(written, k, ReportName)
                   /\ zips' = StartZip(zips, k)
                   /\ pc' = [pc EXCEPT ![r] = "zip"]
                   /\ UNCHANGED <<resp, failed>>
              ELSE /\ FailCombine(r, "report")
                   /\ dirs' = written
                   /\ UNCHANGED zips
    /\ UNCHANGED <<variant, crashed, clock, hooks, bodies, taskId, stamp, storedAt, calls,
                   cleanups, statusFile, writes>>

\* The ffmpeg process of a running job hangs. exec was given no timeout, so
\* its callback is never called and the promise of the job stays pending.
\* The hang of a job is recorded once the other jobs of the task have settled.
CombineJobHangs(r) ==
    /\ ~crashed
    /\ pc[r] = "jobs"
    /\ RunCommand(variant, "hang") = "pending"
    /\ \E j \in Running(jobs[r]) :
        /\ Unsettled(jobs[r]) = {j}
        /\ jobs' = [jobs EXCEPT ![r] = [@ EXCEPT ![j] = "hung"]]
    /\ UNCHANGED <<variant, crashed, clock, pc, hooks, bodies, taskId, stamp, storedAt,
                   calls,
                   successCount, cleanups, failed, resp, statusFile, writes, dirs,
                   zips>>

\* await zipDirectory(thisRunFolder, zipPath) settles: on success the uploads
\* are removed and the 200 response is sent.
CombineZip(r) ==
    /\ variant = "combine"
    /\ ~crashed
    /\ pc[r] = "zip"
    /\ \E end \in ZipEnds :
        LET k == RunFolder(stamp[r]) IN
        CASE end = "close" ->
               /\ zips' = CloseZip(zips, k, dirs[k])
               /\ cleanups' = [cleanups EXCEPT ![r] = @ + 1]
               /\ resp' = [resp EXCEPT ![r] = [code |-> 200, zipPath |-> k]]
               /\ pc' = [pc EXCEPT ![r] = "finished"]
               /\ UNCHANGED <<crashed, failed>>
          [] end = "archiveError" ->
               /\ FailCombine(r, "zip")
               /\ UNCHANGED <<zips, cleanups, crashed>>
          [] end = "streamError" ->
               /\ crashed' = TRUE
               /\ failed' = [failed EXCEPT ![r] = "stream"]
               /\ UNCHANGED <<zips, cleanups, resp, pc>>
    /\ UNCHANGED <<variant, clock, hooks, bodies, taskId, stamp, storedAt, jobs, calls,
                   successCount, statusFile, writes, dirs>>

---------------------------------------------------------------------------
(* src/index.js: GET /status/:taskId *)

ResultsDir == <<"tmp", "results">>

\* path.join normalises the joined path: "." is dropped, ".." drops the
\* segment before it.
RECURSIVE Normalize(_, _)
Normalize(segs, acc) ==
    IF segs = <<>> THEN acc
    ELSE IF Head(segs) = "." THEN Normalize(Tail(segs), acc)
    ELSE IF Head(segs) = ".."
         THEN Normalize(Tail(segs),
                        IF acc = <<>> THEN acc ELSE SubSeq(acc, 1, Len(acc) - 1))
    ELSE Normalize(Tail(segs), Append(acc, Head(segs)))

\* path.join(resultsDir, taskId, "status.json"); taskId is the decoded route
\* parameter, given by its path segments (a uuid is one segment).
StatusPath(q) == Normalize(ResultsDir \o q \o StatusName, <<>>)

\* The status.json files that exist, by path.
StatusFilePaths == { ResultsDir \o <<id>> \o StatusName :
                        id \in { i \in TaskIds : statusFile[i] # NoFile } }

\* getStatus(taskId): null (NoFile) when no file is at the path, and when
\* fs.readJsonSync throws because the file holds no JSON.
GetStatus(q) ==
    IF StatusPath(q) \in StatusFilePaths
    THEN LET rec == statusFile[CHOOSE id \in TaskIds :
                        StatusPath(q) = ResultsDir \o <<id>> \o StatusName]
         IN IF rec = Torn THEN NoFile ELSE rec
    ELSE NoFile

\* The GET /status/:taskId handler.
StatusHandler(q) ==
    IF GetStatus(q) = NoFile
    THEN [code |-> 404]
    ELSE [code |-> 200, body |-> GetStatus(q)]

\* The identifiers a client may ask for.
QueryIds == { <<id>> : id \in TaskIds \cup {"0"} }
            \cup { <<id, ".">> : id \in TaskIds }
            \cup { <<"..", "results", id>> : id \in TaskIds }

---------------------------------------------------------------------------
(* The server process is killed and started again *)

InProgress == {"ensureDir", "jobs", "zip"}

\* What a restart leaves of the status files: they are on disk.
Persisted(sf) == sf

\* The process is stopped between two turns of the event loop and started
\* again: every pending continuation is lost, the files stay.
Restart ==
    /\ crashed \/ \E r \in Requests : pc[r] \in InProgress
    /\ crashed' = FALSE
    /\ pc' = [r \in Requests |-> IF pc[r] \in InProgress THEN "lost" ELSE pc[r]]
    /\ statusFile' = Persisted(statusFile)
    /\ UNCHANGED <<variant, clock, hooks, bodies, taskId, stamp, storedAt, jobs,
                   calls,
                   successCount, cleanups, failed, resp, writes, dirs, zips>>

\* The process is killed in the turn that ends processVideos, inside the
\* fs.writeJsonSync of saveStatus(taskId, {status: "done", ...}): the archive
\* was closed, status.json was opened, which truncates it, and the record
\* was not written.
KillInSaveStatus(r) ==
    /\ variant \in IndexVariants
    /\ ~crashed
    /\ pc[r] = "zip"
    /\ zips' = CloseZip(zips, taskId[r], dirs[taskId[r]])
    /\ statusFile' = SaveStatusFile(statusFile, taskId[r], Torn)
    /\ crashed' = TRUE
    /\ UNCHANGED <<variant, clock, pc, hooks, bodies, taskId, stamp, storedAt,
                   jobs, calls,
                   successCount, cleanups, failed, resp, writes, dirs>>

---------------------------------------------------------------------------
Next ==
    \E r \in Requests :
        \/ UploadHandler(r)
        \/ ProcessVideosEnsureDir(r)
        \/ ProcessVideosJob(r)
        \/ ProcessVideosZip(r)
        \/ CombineHandler(r)
        \/ CombineEnsureDir(r)
        \/ CombineJob(r)
        \/ CombineJobHangs(r)
        \/ CombineZip(r)

Spec == Init /\ [][Next]_vars

\* The /upload server with kills and restarts of its process.
InitIndex == Init /\ variant \in IndexVariants

NextRestart ==
    \/ \E r \in Requests :
        \/ UploadHandler(r)
        \/ ProcessVideosEnsureDir(r)
        \/ ProcessVideosJob(r)
        \/ ProcessVideosZip(r)
        \/ KillInSaveStatus(r)
    \/ Restart

RestartSpec == InitIndex /\ [][NextRestart]_vars

\* The /upload server whose process is not restarted, where every awaited
\* operation ends: the continuation of an await that can run does run.
NextIndex ==
    \E r \in Requests :
        \/ UploadHandler(r)
        \/ ProcessVideosEnsureDir(r)
        \/ ProcessVideosJob(r)
        \/ ProcessVideosZip(r)

Fairness ==
    \A r \in Requests :
        /\ WF_vars(ProcessVideosEnsureDir(r))
        /\ WF_vars(ProcessVideosJob(r))
        /\ WF_vars(ProcessVideosZip(r))

FairSpec == InitIndex /\ [][NextIndex]_vars /\ Fairness

---------------------------------------------------------------------------
(* Properties *)

Accepted(r) == pc[r] \notin {"idle", "rejected"}
Record(r) == statusFile[taskId[r]]
Settled(r) == { j \in 1..Len(jobs[r]) : jobs[r][j] \in {"resolved", "rejected"} }
Indexed == variant \in IndexVariants

\* The concurrency limit of the Job Scheduler ("a fixed positive integer,
\* e.g. 2"); the code has no such constant.
ConcurrencyLimit == 2

\* C1: a done record written by processVideos has total = H*B and
\* 0 <= success <= total, and success is the number of the task's
\* combineVideos invocations that resolved.
C1_DoneTotals ==
    \A r \in Requests :
        (Indexed /\ Accepted(r) /\ Record(r).status = "done") =>
            /\ Record(r).total = Len(hooks[r]) * Len(bodies[r])
            /\ 0 <= Record(r).success
            /\ Record(r).success <= Record(r).total
            /\ Record(r).success = Count(jobs[r], "resolved")

\* C1 witness: a done record of a 2 x 2 task of which some jobs resolved and
\* some were rejected.
C1_Witness ==
    \E r \in Requests :
        /\ Indexed /\ Accepted(r) /\ Record(r).status = "done"
        /\ Record(r).total = 4
        /\ Record(r).success = 2
        /\ Count(jobs[r], "rejected") = 2

\* C2: at every instant the number of combineVideos invocations of one task
\* that have started and not settled is at most the concurrency limit.
C2_InFlightBounded ==
    \A r \in Requests : Cardinality(Running(jobs[r])) <= ConcurrencyLimit

\* C3: for every accepted task that reached a terminal state (done, error,
\* or the 200 / 500 response of /combine) the removal of its uploads was
\* started exactly once, and it is never started twice.
C3_CleanupOnce ==
    \A r \in Requests :
        /\ cleanups[r] <= 1
        /\ (Accepted(r) /\ pc[r] = "finished") => cleanups[r] = 1

\* C4: the status of a task goes processing -> done or processing -> error
\* only; after saveStatus(processing) the record is written exactly once
\* more, when processVideos ends, and a done or error record is never
\* written again.
C4_StatusTransitions ==
    [][\A id \in TaskIds :
        /\ statusFile[id].status \in {"done", "error"} =>
              /\ statusFile'[id] = statusFile[id]
              /\ writes'[id] = writes[id]
        /\ statusFile[id].status = "processing" =>
              statusFile'[id].status \in {"processing", "done", "error"}
        /\ statusFile[id].status = "absent" =>
              statusFile'[id].status \in {"absent", "processing"}
        /\ statusFile'[id].status = "absent" => writes'[id] = 0
        /\ statusFile'[id].status = "processing" => writes'[id] = 1
        /\ statusFile'[id].status \in {"done", "error"} => writes'[id] = 2
        /\ \A r \in Requests :
              (taskId'[r] = id /\ pc'[r] = "finished") =>
                  statusFile'[id].status \in {"done", "error"}
      ]_vars

\* C4 witness: a task whose archive failed: its catch block saved the error
\* and processVideos returned.
C4_Witness ==
    \E r \in Requests :
        /\ Indexed /\ pc[r] = "finished" /\ failed[r] = "zip"
        /\ Record(r).status = "error"
        /\ writes[taskId[r]] = 2

\* C5: within one task combineVideos is invoked exactly once per (hook, body)
\* pair: never twice, and once a job has settled, resolved or rejected, the
\* next pair has been invoked; when the batch is over every pair has been
\* invoked once and has settled; a rejected job is not counted as a success.
C5_EveryPairOnce ==
    \A r \in Requests :
        Accepted(r) =>
            /\ Len(calls[r]) = Len(hooks[r]) * Len(bodies[r])
            /\ Len(jobs[r]) = Len(calls[r])
            /\ \A j \in 1..Len(calls[r]) :
                  /\ calls[r][j] <= 1
                  /\ (jobs[r][j] = "pending") <=> (calls[r][j] = 0)
                  /\ (j \in Settled(r) /\ j < Len(calls[r])) => calls[r][j + 1] = 1
            /\ (pc[r] = "zip" \/ failed[r] \in {"report", "zip"}) =>
                  \A j \in 1..Len(calls[r]) : calls[r][j] = 1 /\ j \in Settled(r)
            /\ successCount[r] = Count(jobs[r], "resolved")

\* C5 witness: a 2 x 2 batch that is over, whose first job was rejected.
C5_Witness ==
    \E r \in Requests :
        /\ pc[r] = "zip"
        /\ Len(jobs[r]) = 4
        /\ jobs[r][1] = "rejected"
        /\ \A j \in 1..4 : calls[r][j] = 1

AllRejected(r) ==
    Len(jobs[r]) > 0 /\ \A j \in 1..Len(jobs[r]) : jobs[r][j] = "rejected"
AllResolved(r) ==
    Len(jobs[r]) > 0 /\ \A j \in 1..Len(jobs[r]) : jobs[r][j] = "resolved"

C7_AllSucceedArchive ==
    \A r \in Requests :
        (Indexed /\ Accepted(r) /\ Record(r).status = "done" /\ AllResolved(r)) =>
            LET n == Len(hooks[r]) * Len(bodies[r])
                outputs == { JobName(hooks[r], bodies[r], j) : j \in 1..n }
            IN
            /\ Record(r).success = n
            /\ Record(r).total = n
            /\ zips[taskId[r]].complete
            /\ zips[taskId[r]].entries = outputs \cup {ReportName}
            /\ Cardinality(outputs) = n

\* C8: GET /status/:taskId answers 404 for every identifier /upload never
\* assigned, and answers the record {status: processing}, without a
\* downloadUrl, for every accepted task whose processVideos has not ended.
C8_StatusLookup ==
    (Indexed /\ ~crashed) =>
        \A q \in QueryIds :
            /\ (\A r \in Requests : q # <<taskId[r]>>) => StatusHandler(q).code = 404
            /\ \A r \in Requests :
                  (Accepted(r) /\ pc[r] # "finished" /\ q = <<taskId[r]>>) =>
                      StatusHandler(q) = [code |-> 200, body |-> Processing]

\* The result directory of a request: <resultsDir>/<taskId>, or the run
\* folder of /combine.
DirKey(r) == IF Indexed THEN taskId[r] ELSE RunFolder(stamp[r])

\* C9: a submission whose hooks or bodies list is empty is answered 400 and
\* starts nothing: no task id, no status record, no directory, no job.
C9_EmptyRejected ==
    /\ \A r \in Requests :
          pc[r] # "idle" =>
              /\ (Len(hooks[r]) = 0 \/ Len(bodies[r]) = 0) <=> pc[r] = "rejected"
              /\ pc[r] = "rejected" =>
                    /\ resp[r] = [code |-> 400]
                    /\ taskId[r] = NoId
                    /\ stamp[r] = 0
                    /\ jobs[r] = <<>>
                    /\ calls[r] = <<>>
                    /\ successCount[r] = 0
    /\ \A id \in TaskIds :
          statusFile[id] # NoFile => \E r \in Requests : Accepted(r) /\ taskId[r] = id
    /\ \A k \in DOMAIN dirs : \E r \in Requests : Accepted(r) /\ DirKey(r) = k

\* C9 witness: a request with a hook and no body was rejected while nothing
\* exists in the results directory.
C9_Witness ==
    \E r \in Requests :
        /\ pc[r] = "rejected"
        /\ Len(hooks[r]) = 1 /\ Len(bodies[r]) = 0
        /\ DOMAIN dirs = {}

\* C10: every accepted submission has been answered 202 with its task
\* identifier, from its acceptance on and whatever became of its jobs.
C10_Acknowledged ==
    \A r \in Requests :
        Accepted(r) =>
            /\ taskId[r] \in TaskIds
            /\ resp[r] = [code |-> 202, taskId |-> taskId[r]]

\* C11: a status record saved by saveStatus survives every restart of the
\* server process: once a task's record was saved, getStatus never answers
\* not-found for it, and it answers processing as long as no other record
\* was saved, also after a restart in the middle of the task.
C11_SurvivesRestart ==
    \A id \in TaskIds :
        writes[id] >= 1 =>
            /\ GetStatus(<<id>>) # NoFile
            /\ writes[id] = 1 => GetStatus(<<id>>) = Processing
            /\ writes[id] = 2 => GetStatus(<<id>>).status \in {"done", "error"}

\* C12: within one task any two distinct (hook, body) jobs have distinct
\* destination paths, for every list of hooks and bodies the upload layer
\* accepts.
C12_DistinctDestinations ==
    \A r \in Requests :
        Accepted(r) =>
            \A i, j \in 1..Len(jobs[r]) :
                i # j => JobName(hooks[r], bodies[r], i) # JobName(hooks[r], bodies[r], j)

\* C13: within one task report.txt is written only after every job has
\* settled, the archive is created only after the report is written, and the
\* status is done only after zipDirectory has written the archive: a status
\* query that answers done names an archive that exists, is complete and
\* holds the report.
C13_StepsOrdered ==
    \A r \in Requests :
        (Indexed /\ Accepted(r)) =>
            LET id == taskId[r] IN
            /\ ReportName \in dirs[id] => Settled(r) = 1..Len(jobs[r])
            /\ id \in DOMAIN zips => ReportName \in dirs[id]
            /\ Record(r).status = "done" =>
                  /\ StatusHandler(<<id>>) = [code |-> 200, body |-> Record(r)]
                  /\ Record(r).downloadUrl \in DOMAIN zips
                  /\ zips[Record(r).downloadUrl].complete
                  /\ ReportName \in zips[Record(r).downloadUrl].entries

\* C13 witness: a status query answers done for a 2 x 2 task whose archive
\* is complete.
C13_Witness ==
    \E r \in Requests :
        /\ Indexed /\ Len(jobs[r]) = 4
        /\ StatusHandler(<<taskId[r]>>).code = 200
        /\ StatusHandler(<<taskId[r]>>).body.status = "done"
        /\ zips[taskId[r]].complete

\* C14: when the creation of the task directory, the report write or the
\* archive creation of a task failed, a write error of the archive output
\* stream included, the status of the task is error, with a message, and
\* not done; the status is error for no other reason, so never for the
\* failure of a job alone.
C14_FatalStepsGiveError ==
    \A r \in Requests :
        (Indexed /\ Accepted(r)) =>
            /\ failed[r] \in {"ensureDir", "report", "zip", "stream"} =>
                  Record(r) = ErrorRecord
            /\ Record(r).status = "error" =>
                  failed[r] \in {"ensureDir", "report", "zip", "stream"}

\* C15: any two distinct accepted submissions, also two accepted within the
\* same second, have different output directories and archive paths, under
\* the uuid-keyed directory of index.js and under the timestamp-keyed run
\* folder of part_000.
C15_TasksDisjoint ==
    \A r1, r2 \in Requests :
        (r1 # r2 /\ Accepted(r1) /\ Accepted(r2)) => DirKey(r1) # DirKey(r2)

\* C16: after a combineVideos invocation failed or timed out no file exists
\* at the destination of that job, so the archive of the task holds no
\* output file of a failed job (stated for the jobs whose destination no
\* other job of the task shares).
C16_NoOutputOfFailedJob ==
    \A r \in Requests :
        (Indexed /\ Accepted(r)) =>
            \A j \in 1..Len(jobs[r]) :
                (/\ jobs[r][j] = "rejected"
                 /\ \A i \in 1..Len(jobs[r]) :
                       i # j => JobName(hooks[r], bodies[r], i) # JobName(hooks[r], bodies[r], j))
                => /\ JobName(hooks[r], bodies[r], j) \notin dirs[taskId[r]]
                   /\ taskId[r] \in DOMAIN zips =>
                         JobName(hooks[r], bodies[r], j) \notin zips[taskId[r]].entries

\* C17: every external process started by runCommand settles within its
\* timeout, in index.js and in part_000: no invocation stays pending on a
\* process that hangs.
C17_SettlesWithinTimeout ==
    \A r \in Requests :
        \A j \in 1..Len(jobs[r]) : jobs[r][j] # "hung"

\* C18: the stored uploads are partitioned by task: no upload path belongs
\* to two requests, nor to two files of one request, also when uploads of
\* one original name are stored in the same millisecond.
C18_UploadsPartitioned ==
    /\ \A r \in Requests :
          pc[r] # "idle" =>
              Cardinality(UploadPaths(r)) = Len(hooks[r]) + Len(bodies[r])
    /\ \A r1, r2 \in Requests :
          (r1 # r2 /\ pc[r1] # "idle" /\ pc[r2] # "idle") =>
              UploadPaths(r1) \cap UploadPaths(r2) = {}

\* The status of the task of request r is done or error.
Ended(r) ==
    /\ taskId[r] \in TaskIds
    /\ statusFile[taskId[r]].status \in {"done", "error"}

\* C19: when the process is not restarted and every external process exits
\* or is timed out, every accepted task eventually leaves processing and
\* reaches done or error, whatever its jobs, the report write, the archive
\* library and the archive output stream do.
C19_EveryTaskEnds ==
    \A r \in Requests : Accepted(r) ~> Ended(r)

\* C20: the removal of the uploaded files of a task never starts while a
\* combination job of the task is pending or running: when it has started,
\* on the success path and on the error path, every combineVideos invocation
\* of the task was made and has settled.
C20_CleanupAfterJobs ==
    \A r \in Requests :
        cleanups[r] > 0 =>
            /\ Len(jobs[r]) = Len(hooks[r]) * Len(bodies[r])
            /\ \A j \in 1..Len(jobs[r]) :
                  jobs[r][j] \in {"resolved", "rejected"} /\ calls[r][j] = 1

\* C20 witness: the finally block removed the uploads of a 2 x 2 task whose
\* report write failed after a rejected job.
C20_Witness ==
    \E r \in Requests :
        /\ cleanups[r] = 1 /\ failed[r] = "report"
        /\ Len(jobs[r]) = 4
        /\ jobs[r][4] = "rejected"

====
